---- MODULE Spec2Model ----
(***************************************************************************)
(* Verification model of the realtime core of the RAG chat backend:        *)
(*   - ConnectionManager (backend/app/api/v1/endpoints/connection_manager) *)
(*   - websocket_endpoint / process_chat_message (endpoints/chat.py)       *)
(*                                                                         *)
(* Four specifications share one set of variables:                         *)
(*   Spec        the registry driven by whole calls, one call per step     *)
(*   SpecTasks   the registry driven by concurrent asyncio tasks, one step *)
(*               per code segment between two awaits                       *)
(*   SpecStream  the delivery section of process_chat_message              *)
(*   SpecChat    concurrent websocket_endpoint calls, one step per         *)
(*               ConnectionManager call or socket read                     *)
(***************************************************************************)
EXTENDS Integers, Sequences, FiniteSets, Bags, TLC

\* ----------------------------------------------------------------- bounds
MaxIds == 2          \* connection ids generated in one run
NumUsers == 2        \* user ids 1..NumUsers
NumTasks == 2        \* SpecTasks: concurrently running asyncio tasks
MaxTaskIds == 2      \* SpecTasks: connection ids generated in one run
MaxLen == 21         \* SpecStream: longest answer text
MaxSources == 1      \* SpecStream: most sources attached to an answer
NumConns == 2        \* SpecChat: websocket_endpoint calls (one per client socket)
MaxMsgs == 2         \* SpecChat: texts the clients send, all sockets together
MaxExtra == 1        \* SpecChat: answers are 0, 10 or 10 + MaxExtra characters long
MaxTexts == 2        \* SpecTurn: texts the client sends on the socket
NumDocs == 2         \* documents that have chunks
MaxChunks == 2       \* chunks of one document
MaxOps == 3          \* calls made on the index
MaxSplitLen == 4     \* characters of a text handed to split_text
MaxChunkSize == 3    \* chunk_size handed to split_text

None == 0            \* Python None for Optional[int] / Optional[str]

Users == 1..NumUsers
Ids == 1..MaxIds

AcceptOutcomes == {"ok", "fail"}
\* send_json: success, WebSocketDisconnect, any other Exception
WriteOutcomes == {"ok", "disconnect", "error"}
CloseOutcomes == {"ok", "fail"}

\* the WebSocket object of the n-th client connection: the framework makes
\* one per connection and hands it to websocket_endpoint
WebSocket(n) == n

VARIABLES
    active_connections,   \* connection_id -> WebSocket
    user_connections,     \* user_id -> set of connection_id
    nextId,               \* number of uuid4() values handed out so far, plus one
    last,                 \* the call that ran last and what it returned
    closed,               \* ids a disconnect() call was made for while registered
    tasks,                \* SpecTasks: where each asyncio task stands
    strm,                 \* SpecStream: one turn's delivery section
    handlers,             \* SpecChat: where each websocket_endpoint call stands
    turns,                \* SpecChat: the process_chat_message calls in progress
    inbox,                \* SpecChat: texts written by the clients, not yet read
    db,                   \* SpecTurn: the tables and the handler's Session
    conn,                 \* SpecTurn: one websocket_endpoint call and its turn
    vector_store          \* SpecIndex: the Chroma collection and its persisted copy

regvars == <<active_connections, user_connections, nextId, last, closed>>
turnvars == <<db, conn>>
chatvars == <<handlers, turns, inbox, turnvars, vector_store>>

\* ------------------------------------------------------- registry helpers

\* an id generator that hands out one value over and over
uuid4_small(n) == 1

\* uuid.uuid4(): a value no earlier call returned
uuid4(n) == n

\* dict item assignment d[k] = v
DictSet(d, k, v) == [x \in (DOMAIN d) \cup {k} |-> IF x = k THEN v ELSE d[x]]

\* dict.pop(k, None) / del d[k]
DictDel(d, k) == [x \in (DOMAIN d) \ {k} |-> d[x]]

\* lines 46-51 of connect: register both maps
Register(ac, uc, id, ws, u) ==
    LET uc1 == IF u \notin DOMAIN uc THEN DictSet(uc, u, {}) ELSE uc
    IN  [ac |-> DictSet(ac, id, ws),
         uc |-> DictSet(uc1, u, uc1[u] \cup {id})]

\* a disconnect that skips the reverse lookup
LookupUser_none(uc, id, uarg) == uarg

\* lines 72-76 of disconnect: reverse lookup of the owner when user_id is None.
\* The loop returns the first user whose set holds the id; an id is in at
\* most one set (OneOwner below), so the iteration order does not matter.
LookupUser(uc, id, uarg) ==
    IF uarg # None THEN uarg
    ELSE IF \E u \in DOMAIN uc : id \in uc[u]
         THEN CHOOSE u \in DOMAIN uc : id \in uc[u]
         ELSE None

\* a cleanup that drops the user's whole entry
CleanUser_all(uc, id, user_id) ==
    IF user_id # None /\ user_id \in DOMAIN uc
    THEN [x \in (DOMAIN uc) \ {user_id} |-> uc[x]]
    ELSE uc

\* lines 88-91 of disconnect: clean up user tracking
CleanUser(uc, id, user_id) ==
    IF user_id # None /\ user_id \in DOMAIN uc
    THEN LET s == uc[user_id] \ {id}
         IN  IF s = {} THEN DictDel(uc, user_id) ELSE DictSet(uc, user_id, s)
    ELSE uc

\* a disconnect that lets a failed close() escape
close_raises_uncaught(cls) == cls = "fail"

\* lines 80-85 of disconnect: `except Exception` swallows a failed close()
close_raises(cls) == FALSE

\* disconnect as a whole: the close outcome does not matter to the maps,
\* the finally clause pops the entry either way
Unregister(ac, uc, id, uarg) ==
    [ac |-> DictDel(ac, id),
     uc |-> CleanUser(uc, id, LookupUser(uc, id, uarg))]

\* get_connection_count(user_id)
get_connection_count(ac, uc, u) ==
    IF u # None
    THEN (IF u \in DOMAIN uc THEN Cardinality(uc[u]) ELSE 0)
    ELSE Cardinality(DOMAIN ac)

NoCall == [op |-> "none", id |-> None, user |-> None, uarg |-> None,
           ret |-> FALSE, raised |-> FALSE, count |-> 0,
           attempts |-> <<>>, write |-> "none", close |-> "none"]

\* --------------------------------------------- Spec: whole registry calls

NoTurn == db = <<>> /\ conn = <<>>
NoIndex == vector_store = <<>>
NoChat == handlers = <<>> /\ turns = <<>> /\ inbox = <<>> /\ NoTurn /\ NoIndex

InitReg ==
    /\ active_connections = <<>>
    /\ user_connections = <<>>
    /\ nextId = 1
    /\ last = NoCall
    /\ closed = {}

\* a connect that registers before the handshake accept
connect_early(ws, u, acc) ==
    LET id == uuid4(nextId)
        r == Register(active_connections, user_connections, id, ws, u)
    IN  /\ nextId <= MaxIds
        /\ nextId' = nextId + 1
        /\ active_connections' = r.ac
        /\ user_connections' = r.uc
        /\ last' = IF acc = "ok"
                   THEN [NoCall EXCEPT !.op = "connect", !.id = id, !.user = u]
                   ELSE [NoCall EXCEPT !.op = "connect", !.user = u,
                                       !.raised = TRUE]
        /\ UNCHANGED <<closed, tasks, strm, chatvars>>

\* connect(websocket, user_id)
connect(ws, u, acc) ==
    LET id == uuid4(nextId) IN
    /\ nextId <= MaxIds
    /\ nextId' = nextId + 1
    /\ IF acc = "ok"
       THEN LET r == Register(active_connections, user_connections, id, ws, u)
            IN  /\ active_connections' = r.ac
                /\ user_connections' = r.uc
                /\ last' = [NoCall EXCEPT !.op = "connect", !.id = id, !.user = u]
       ELSE /\ UNCHANGED <<active_connections, user_connections>>
            /\ last' = [NoCall EXCEPT !.op = "connect", !.user = u,
                                      !.raised = TRUE]
    /\ UNCHANGED <<closed, tasks, strm, chatvars>>

\* disconnect(connection_id, user_id=None)
disconnect(id, uarg, cls) ==
    LET r == Unregister(active_connections, user_connections, id, uarg)
        registered == id \in DOMAIN active_connections
    IN  /\ active_connections' = r.ac
        /\ user_connections' = r.uc
        /\ closed' = IF registered THEN closed \cup {id} ELSE closed
        /\ last' = [NoCall EXCEPT !.op = "disconnect", !.id = id, !.uarg = uarg,
                       !.user = LookupUser(user_connections, id, uarg),
                       !.close = IF registered THEN cls ELSE "none",
                       !.raised = registered /\ close_raises(cls)]
        /\ UNCHANGED <<nextId, tasks, strm, chatvars>>

\* a send that reports a failed write without the implicit disconnect
SendResult_keep(ac, uc, id, w) ==
    IF id \notin DOMAIN ac
    THEN [ac |-> ac, uc |-> uc, ret |-> FALSE, write |-> "none"]
    ELSE [ac |-> ac, uc |-> uc, ret |-> w = "ok", write |-> w]

\* send_message(message, connection_id): the new maps and the return value
SendResult(ac, uc, id, w) ==
    IF id \notin DOMAIN ac
    THEN [ac |-> ac, uc |-> uc, ret |-> FALSE, write |-> "none"]
    ELSE IF w = "ok"
         THEN [ac |-> ac, uc |-> uc, ret |-> TRUE, write |-> w]
         ELSE LET r == Unregister(ac, uc, id, None)
              IN  [ac |-> r.ac, uc |-> r.uc, ret |-> FALSE, write |-> w]

send_message(id, w, cls) ==
    LET r == SendResult(active_connections, user_connections, id, w) IN
    /\ active_connections' = r.ac
    /\ user_connections' = r.uc
    /\ UNCHANGED <<closed, tasks, strm, chatvars>>
    /\ last' = [NoCall EXCEPT !.op = "send", !.id = id,
                   !.raised = r.write \in {"disconnect", "error"}
                              /\ close_raises(cls),
                   !.ret = r.ret,
                   !.write = r.write,
                   !.user = LookupUser(user_connections, id, None),
                   !.close = IF r.write \in {"disconnect", "error"}
                             THEN cls ELSE "none"]
    /\ UNCHANGED nextId

\* a loop over the live set: the traversal ends at the first send that
\* changes the set
RECURSIVE BroadcastLoop_live(_, _, _, _, _, _)
BroadcastLoop_live(ac, uc, order, ws, count, done) ==
    IF order = <<>>
    THEN [ac |-> ac, uc |-> uc, count |-> count, attempts |-> done]
    ELSE LET id == Head(order)
             r == SendResult(ac, uc, id, ws[id])
             att == Append(done, [id |-> id, ret |-> r.ret, write |-> r.write])
         IN  IF r.uc # uc
             THEN [ac |-> r.ac, uc |-> r.uc, count |-> count, attempts |-> att]
             ELSE BroadcastLoop_live(r.ac, r.uc, Tail(order), ws,
                                     IF r.ret THEN count + 1 ELSE count, att)

\* lines 140-145: the loop of broadcast_to_user over the snapshot `order`
RECURSIVE BroadcastLoop(_, _, _, _, _, _)
BroadcastLoop(ac, uc, order, ws, count, done) ==
    IF order = <<>>
    THEN [ac |-> ac, uc |-> uc, count |-> count, attempts |-> done]
    ELSE LET id == Head(order)
             r == SendResult(ac, uc, id, ws[id])
         IN  BroadcastLoop(r.ac, r.uc, Tail(order), ws,
                           IF r.ret THEN count + 1 ELSE count,
                           Append(done, [id |-> id, ret |-> r.ret,
                                         write |-> r.write]))

\* all iteration orders of list(set)
Orders(S) ==
    {o \in [1..Cardinality(S) -> S] : \A i, j \in DOMAIN o : i # j => o[i] # o[j]}

\* broadcast_to_user(message, user_id)
broadcast_to_user(u) ==
    /\ IF u \notin DOMAIN user_connections
       THEN /\ UNCHANGED <<active_connections, user_connections>>
            /\ last' = [NoCall EXCEPT !.op = "broadcast", !.user = u]
       ELSE \E order \in Orders(user_connections[u]) :
            \E ws \in [user_connections[u] -> WriteOutcomes] :
              LET r == BroadcastLoop(active_connections, user_connections,
                                     order, ws, 0, <<>>)
              IN  /\ active_connections' = r.ac
                  /\ user_connections' = r.uc
                  /\ last' = [NoCall EXCEPT !.op = "broadcast", !.user = u,
                                 !.count = r.count, !.attempts = r.attempts]
    /\ UNCHANGED <<nextId, closed, tasks, strm, chatvars>>

CallConnect == \E u \in Users, acc \in AcceptOutcomes :
                  connect(WebSocket(nextId), u, acc)
CallDisconnect == \E id \in Ids, uarg \in Users \cup {None}, cls \in CloseOutcomes :
                  disconnect(id, uarg, cls)
CallSend == \E id \in Ids, w \in WriteOutcomes, cls \in CloseOutcomes :
                  send_message(id, w, cls)
CallBroadcast == \E u \in Users : broadcast_to_user(u)

vars == <<active_connections, user_connections, nextId, last, closed, tasks,
          strm, handlers, turns, inbox, db, conn, vector_store>>

Next == CallConnect \/ CallDisconnect \/ CallSend \/ CallBroadcast

Init == InitReg /\ tasks = <<>> /\ strm = <<>> /\ NoChat

Spec == Init /\ [][Next]_vars

\* ------------------------------------------------- registry claims (Spec)

\* every id sits in at most one user's set, which is what makes the
\* reverse lookup of disconnect independent of the dict's iteration order
OneOwner ==
    \A u1, u2 \in DOMAIN user_connections :
        u1 # u2 => user_connections[u1] \cap user_connections[u2] = {}

IsConnectStep == nextId' # nextId
WriteFailed(w) == w \in {"disconnect", "error"}

\* C30: after disconnect(connection_id, user_id), whatever user_id was
\* passed, the id is a key of the connection map no more and a member of no
\* user's set, no user is left with an empty set, and every other entry of
\* the two maps is as it was.
C30_DisconnectRemovesBoth ==
    [][last'.op = "disconnect" =>
          LET id == last'.id
          IN  /\ id \notin DOMAIN active_connections'
              /\ \A u \in DOMAIN user_connections' :
                     /\ id \notin user_connections'[u]
                     /\ user_connections'[u] # {}
              /\ \A j \in DOMAIN active_connections \ {id} :
                     /\ j \in DOMAIN active_connections'
                     /\ active_connections'[j] = active_connections[j]
              /\ \A u \in DOMAIN user_connections :
                     user_connections[u] \ {id} # {} =>
                         /\ u \in DOMAIN user_connections'
                         /\ user_connections'[u] = user_connections[u] \ {id}]_vars

\* C1: a successful connect() returns an id that is neither a key of the
\* connection map nor a member of any user's set before the call, and it
\* adds that one entry without touching any existing one.
C1_ConnectIdIsFresh ==
    [][(IsConnectStep /\ ~last'.raised) =>
          /\ last'.id \notin DOMAIN active_connections
          /\ \A u \in DOMAIN user_connections : last'.id \notin user_connections[u]
          /\ DOMAIN active_connections' = DOMAIN active_connections \cup {last'.id}
          /\ \A x \in DOMAIN active_connections :
                active_connections'[x] = active_connections[x]]_vars

\* connect succeeded while an earlier connection was live
C1_Witness ==
    /\ last.op = "connect" /\ ~last.raised
    /\ last.id \in DOMAIN active_connections
    /\ Cardinality(DOMAIN active_connections) >= 2

\* C2: disconnect(id) of a connection registered for user u (user_id omitted
\* or u) lowers count(u) and count() by exactly one, and every later
\* send to that id returns false.
C2_DisconnectLowersCounts ==
    [][/\ (/\ last'.op = "disconnect"
           /\ last'.id \in DOMAIN active_connections
           /\ last'.uarg \in {None, LookupUser(user_connections, last'.id, None)})
          => LET u == LookupUser(user_connections, last'.id, None) IN
             /\ u # None
             /\ get_connection_count(active_connections', user_connections', u)
                  = get_connection_count(active_connections, user_connections, u) - 1
             /\ get_connection_count(active_connections', user_connections', None)
                  = get_connection_count(active_connections, user_connections, None) - 1
             /\ last'.id \notin DOMAIN active_connections'
       /\ (last'.op = "send" /\ last'.id \in closed') =>
             (last'.ret = FALSE /\ last'.write = "none")]_vars

\* a send to an id that disconnect(id) removed while its owner kept another
\* connection
C2_Witness ==
    /\ last.op = "send" /\ last.id \in closed /\ ~last.ret
    /\ \E u \in DOMAIN user_connections : user_connections[u] # {}

\* C3: a send to a registered connection whose transport write fails returns
\* false and leaves the id in neither map: count() and count(owner) are one
\* lower than before.
C3_FailedSendUnregisters ==
    [][(last'.op = "send" /\ WriteFailed(last'.write)) =>
          LET owner == LookupUser(user_connections, last'.id, None) IN
          /\ last'.ret = FALSE
          /\ owner # None
          /\ last'.id \notin DOMAIN active_connections'
          /\ \A u \in DOMAIN user_connections' : last'.id \notin user_connections'[u]
          /\ get_connection_count(active_connections', user_connections', None)
               = get_connection_count(active_connections, user_connections, None) - 1
          /\ get_connection_count(active_connections', user_connections', owner)
               = get_connection_count(active_connections, user_connections, owner) - 1]_vars

\* a failed write on a connection whose owner had a second connection
C3_Witness ==
    /\ last.op = "send" /\ last.write = "error"
    /\ last.user \in DOMAIN user_connections

\* C4: send never raises; it returns true exactly when the write succeeded,
\* and false for an unknown id, a failed write, and a failed write followed
\* by a failed close.
C4_SendNeverRaises ==
    last.op = "send" =>
        /\ ~last.raised
        /\ last.ret = (last.write = "ok")
        /\ (WriteFailed(last.write) /\ last.close = "fail") => ~last.ret

\* the write failed and so did the close of the implicit disconnect
C4_Witness ==
    last.op = "send" /\ last.write = "disconnect" /\ last.close = "fail"

\* C5: a connect whose handshake accept fails raises and leaves both maps
\* as they were.
C5_FailedAcceptRegistersNothing ==
    [][(IsConnectStep /\ last'.raised) =>
          /\ active_connections' = active_connections
          /\ user_connections' = user_connections]_vars

\* accept failed for a user who has no entry while another user is connected
C5_Witness ==
    /\ last.op = "connect" /\ last.raised
    /\ last.user \notin DOMAIN user_connections
    /\ DOMAIN active_connections # {}

SuccessCount(att) == Cardinality({i \in DOMAIN att : att[i].ret})

\* C6: broadcast calls send once for every id of the user's set as it was
\* when the call started, also when failed sends shrink or remove that set
\* on the way, and returns the number of sends that returned true; for a
\* user without an entry it returns 0 and sends nothing.
C6_BroadcastCoversSnapshot ==
    [][last'.op = "broadcast" =>
          IF last'.user \notin DOMAIN user_connections
          THEN last'.count = 0 /\ last'.attempts = <<>>
          ELSE /\ Len(last'.attempts) = Cardinality(user_connections[last'.user])
               /\ {last'.attempts[i].id : i \in DOMAIN last'.attempts}
                     = user_connections[last'.user]
               /\ last'.count = SuccessCount(last'.attempts)
               /\ \A i \in DOMAIN last'.attempts :
                     /\ last'.attempts[i].ret = (last'.attempts[i].write = "ok")
                     /\ WriteFailed(last'.attempts[i].write) =>
                          last'.attempts[i].id \notin DOMAIN active_connections']_vars

\* a broadcast whose first send failed and removed a connection, and whose
\* second send was still made and succeeded
C6_Witness ==
    /\ last.op = "broadcast" /\ Len(last.attempts) = 2
    /\ WriteFailed(last.attempts[1].write)
    /\ last.attempts[2].ret
    /\ last.count = 1

\* ----------------------------- SpecTasks: the registry under asyncio tasks
\* Every task runs one registry call at a time.  A step is the code between
\* two awaits; the states in between are the points where the event loop can
\* switch to another task.  pc names the await the task is suspended at.
\* tasks is the bag of the calls that are suspended at an await: asyncio
\* tasks have no identity the registry could see.

Idle == [pc |-> "idle", op |-> "none", id |-> None, user |-> None,
         ws |-> None, rest |-> <<>>, count |-> 0]

InitTasks ==
    /\ InitReg
    /\ tasks = EmptyBag
    /\ strm = <<>>
    /\ NoChat

\* a task can take up a new call
CanBegin == BagCardinality(tasks) < NumTasks

\* the bag once a call has been suspended at its first await, or has
\* returned without reaching one
Begun(tk) == IF tk.pc = "idle" THEN tasks ELSE tasks (+) SetToBag({tk})

\* the bag once the suspended call old has run on to its next await, or has
\* returned
Resumed(old, tk) ==
    IF tk.pc = "idle" THEN tasks (-) SetToBag({old})
    ELSE (tasks (-) SetToBag({old})) (+) SetToBag({tk})

\* the sends of a broadcast that return at once because the id is no longer
\* in the connection map (lines 108-110) are passed over without an await
RECURSIVE SkipGone(_, _)
SkipGone(rest, ac) ==
    IF rest = <<>> \/ Head(rest) \in DOMAIN ac THEN rest
    ELSE SkipGone(Tail(rest), ac)

\* where a task goes on after one send_message call of its own has returned
\* `ok`: back to the caller, or on to the next send of the broadcast loop
AfterSend(tk, ac, ok) ==
    IF tk.op = "broadcast"
    THEN LET rest == SkipGone(tk.rest, ac)
             cnt == IF ok THEN tk.count + 1 ELSE tk.count
         IN  IF rest = <<>> THEN Idle
             ELSE [tk EXCEPT !.pc = "write", !.id = Head(rest),
                             !.rest = Tail(rest), !.count = cnt]
    ELSE Idle

\* connect, lines 43-45: draw the id, start awaiting accept()
TaskConnectBegin(ws, u) ==
    /\ CanBegin
    /\ nextId <= MaxTaskIds
    /\ nextId' = nextId + 1
    /\ tasks' = Begun([Idle EXCEPT !.pc = "accept", !.op = "connect",
                          !.id = uuid4(nextId), !.ws = ws, !.user = u])
    /\ UNCHANGED <<active_connections, user_connections, last, closed, strm, chatvars>>

\* connect, lines 46-58: accept() has returned or raised
TaskAcceptReturn(tk, acc) ==
    /\ tk.pc = "accept"
    /\ IF acc = "ok"
       THEN LET r == Register(active_connections, user_connections,
                              tk.id, tk.ws, tk.user)
            IN  /\ active_connections' = r.ac
                /\ user_connections' = r.uc
       ELSE UNCHANGED <<active_connections, user_connections>>
    /\ tasks' = Resumed(tk, Idle)
    /\ UNCHANGED <<nextId, last, closed, strm, chatvars>>

\* a disconnect that drops the map entry before it awaits close()
DisconnectEnter_pop(tk, ac, uc, id, uarg) ==
    LET user_id == LookupUser(uc, id, uarg) IN
    IF id \in DOMAIN ac
    THEN [ac |-> DictDel(ac, id), uc |-> uc,
          tk |-> [tk EXCEPT !.pc = "close", !.id = id, !.user = user_id]]
    ELSE [ac |-> ac, uc |-> CleanUser(uc, id, user_id),
          tk |-> AfterSend(tk, ac, FALSE)]

\* disconnect, lines 72-81: resolve user_id, then either await close() or,
\* for an id that is not in the connection map, finish lines 88-91 at once
DisconnectEnter(tk, ac, uc, id, uarg) ==
    LET user_id == LookupUser(uc, id, uarg) IN
    IF id \in DOMAIN ac
    THEN [ac |-> ac, uc |-> uc,
          tk |-> [tk EXCEPT !.pc = "close", !.id = id, !.user = user_id]]
    ELSE [ac |-> ac, uc |-> CleanUser(uc, id, user_id),
          tk |-> AfterSend(tk, ac, FALSE)]

\* disconnect called by a task, with the owner's user_id or none
TaskDisconnectBegin(id, uarg) ==
    /\ CanBegin
    /\ uarg \in {None, LookupUser(user_connections, id, None)}
    /\ LET r == DisconnectEnter([Idle EXCEPT !.op = "disconnect"],
                    active_connections, user_connections, id, uarg)
       IN  /\ active_connections' = r.ac
           /\ user_connections' = r.uc
           /\ tasks' = Begun(r.tk)
    /\ UNCHANGED <<nextId, last, closed, strm, chatvars>>

\* disconnect, lines 82-93: close() has returned or raised; pop the entry,
\* clean the user's set with the user_id resolved before the await
TaskCloseReturn(tk, cls) ==
    /\ tk.pc = "close"
    /\ LET ac == DictDel(active_connections, tk.id)
           uc == CleanUser(user_connections, tk.id, tk.user)
       IN  /\ active_connections' = ac
           /\ user_connections' = uc
           /\ tasks' = Resumed(tk, AfterSend(tk, ac, FALSE))
    /\ UNCHANGED <<nextId, last, closed, strm, chatvars>>

\* send_message, lines 108-114: unknown id returns False, else await send_json
TaskSendBegin(id) ==
    /\ CanBegin
    /\ tasks' = Begun(IF id \in DOMAIN active_connections
                      THEN [Idle EXCEPT !.pc = "write", !.op = "send", !.id = id]
                      ELSE Idle)
    /\ UNCHANGED <<active_connections, user_connections, nextId, last, closed,
                   strm, chatvars>>

\* send_message, lines 115-125: send_json has returned or raised; a failure
\* enters disconnect(connection_id) without another await in between
TaskWriteReturn(tk, w) ==
    /\ tk.pc = "write"
    /\ IF w = "ok"
       THEN /\ tasks' = Resumed(tk, AfterSend(tk, active_connections, TRUE))
            /\ UNCHANGED <<active_connections, user_connections>>
       ELSE LET r == DisconnectEnter(tk, active_connections,
                                     user_connections, tk.id, None)
            IN  /\ active_connections' = r.ac
                /\ user_connections' = r.uc
                /\ tasks' = Resumed(tk, r.tk)
    /\ UNCHANGED <<nextId, last, closed, strm, chatvars>>

\* broadcast_to_user, lines 137-142: take the snapshot, start the first send
TaskBroadcastBegin(u) ==
    /\ CanBegin
    /\ u \in DOMAIN user_connections
    /\ \E order \in Orders(user_connections[u]) :
          tasks' = Begun(AfterSend([Idle EXCEPT !.op = "broadcast", !.user = u,
                                                !.rest = order],
                                   active_connections, FALSE))
    /\ UNCHANGED <<active_connections, user_connections, nextId, last, closed,
                   strm, chatvars>>

NextTasks ==
    \/ \E u \in Users : TaskConnectBegin(WebSocket(nextId), u)
    \/ \E id \in 1..MaxTaskIds, uarg \in Users \cup {None} :
          TaskDisconnectBegin(id, uarg)
    \/ \E id \in 1..MaxTaskIds : TaskSendBegin(id)
    \/ \E u \in Users : TaskBroadcastBegin(u)
    \/ \E tk \in BagToSet(tasks) :
          \/ \E acc \in AcceptOutcomes : TaskAcceptReturn(tk, acc)
          \/ \E cls \in CloseOutcomes : TaskCloseReturn(tk, cls)
          \/ \E w \in WriteOutcomes : TaskWriteReturn(tk, w)

SpecTasks == InitTasks /\ [][NextTasks]_vars

\* ------------------------------------------------ registry claim (SpecTasks)

\* the users whose set holds the id
OwnersOf(id) == {u \in DOMAIN user_connections : id \in user_connections[u]}

RECURSIVE SumCounts(_)
SumCounts(us) ==
    IF us = {} THEN 0
    ELSE LET u == CHOOSE x \in us : TRUE
         IN  Cardinality(user_connections[u]) + SumCounts(us \ {u})

\* C7: at every point where the event loop can switch tasks, an id is a key
\* of the connection map exactly when it is in exactly one user's set, and
\* the total count is the sum of the per-user counts.
C7_MapsAgree ==
    /\ \A id \in 1..(MaxTaskIds + 1) :
          (id \in DOMAIN active_connections) <=> (Cardinality(OwnersOf(id)) = 1)
    /\ \A id \in 1..(MaxTaskIds + 1) : Cardinality(OwnersOf(id)) <= 1
    /\ get_connection_count(active_connections, user_connections, None)
          = SumCounts(DOMAIN user_connections)

\* two tasks are suspended in close() for the same connection, one of them
\* inside a failed send, while another connection is registered
C7_Witness ==
    /\ \E t1, t2 \in BagToSet(tasks) :
          /\ t1.pc = "close" /\ t2.pc = "close"
          /\ t1.id = t2.id
          /\ t1.op = "send" /\ t2.op = "disconnect"
    /\ Cardinality(DOMAIN active_connections) >= 2

\* ---------------- SpecStream: the delivery section of process_chat_message
\* The frames are the ChatResponse objects handed to manager.send_message,
\* in call order.  Object construction (ChatResponse, DocumentReference) is
\* taken to succeed.

chunk_size == 10

\* an optional list: None, or a list
NoList == [present |-> FALSE, list |-> <<>>]
SomeList(l) == [present |-> TRUE, list |-> l]

\* answer texts: character j of a text is a number; in pattern 1 all
\* characters differ, pattern 2 repeats with period 3
MakeText(len, k) == [j \in 1..len |-> IF k = 1 THEN j ELSE j % 3]
Texts == {MakeText(len, k) : len \in 0..MaxLen, k \in 1..2}
SourceLists == {[j \in 1..n |-> j] : n \in 0..MaxSources}

Min(a, b) == IF a < b THEN a ELSE b

\* a slice that drops the last character of every full slice
Slice_short(text, i, j) == SubSeq(text, i + 1, Min(j, Len(text)) - 1)

\* Python text[i:j] for 0 <= i <= j
Slice(text, i, j) == SubSeq(text, i + 1, Min(j, Len(text)))

\* result.get("query_id"): RAGService.query returns only "answer" and
\* "sources", and result.update adds no "query_id"
query_id == None

\* lines 387-397: the partial frame of loop index i
PartialFrame(text, i, sources) ==
    [type |-> "assistant",
     content |-> Slice(text, i, i + chunk_size),
     is_partial |-> TRUE,
     query_id |-> query_id,
     sources |-> NoList,
     meta_sources |-> IF i + chunk_size >= Len(text)
                      THEN SomeList(sources) ELSE NoList,
     status |-> "none"]

\* lines 403-411 and 416-424: the complete frame
CompleteFrame(text, sources) ==
    [type |-> "assistant",
     content |-> text,
     is_partial |-> FALSE,
     query_id |-> query_id,
     sources |-> SomeList(sources),
     meta_sources |-> NoList,
     status |-> "complete"]

InitStream ==
    /\ InitReg
    /\ tasks = <<>>
    /\ NoChat
    /\ \E text \in Texts, st \in BOOLEAN, src \in SourceLists :
          strm = [pc |-> "send", text |-> text, stream |-> st,
                  sources |-> src, i |-> 0, sent |-> <<>>]

\* lines 385-399: one iteration of the streaming loop
StreamChunk ==
    /\ strm.pc = "send" /\ strm.stream
    /\ strm.i < Len(strm.text)
    /\ strm' = [strm EXCEPT
                  !.sent = Append(@, PartialFrame(strm.text, strm.i, strm.sources)),
                  !.i = @ + chunk_size]
    /\ UNCHANGED <<regvars, tasks, chatvars>>

\* lines 401-412: after the loop, "the final message with sources if not
\* already sent"
StreamEnd ==
    /\ strm.pc = "send" /\ strm.stream
    /\ strm.i >= Len(strm.text)
    /\ strm' = [strm EXCEPT
                  !.sent = IF Len(strm.text) % chunk_size = 0
                           THEN Append(@, CompleteFrame(strm.text, strm.sources))
                           ELSE @,
                  !.pc = "done"]
    /\ UNCHANGED <<regvars, tasks, chatvars>>

\* lines 414-425: the complete response at once
SendComplete ==
    /\ strm.pc = "send" /\ ~strm.stream
    /\ strm' = [strm EXCEPT
                  !.sent = Append(@, CompleteFrame(strm.text, strm.sources)),
                  !.pc = "done"]
    /\ UNCHANGED <<regvars, tasks, chatvars>>

NextStream == StreamChunk \/ StreamEnd \/ SendComplete

SpecStream == InitStream /\ [][NextStream]_vars

\* ------------------------------------------------ streaming claims (SpecStream)

RECURSIVE Concat(_)
Concat(frames) ==
    IF frames = <<>> THEN <<>>
    ELSE Head(frames).content \o Concat(Tail(frames))

Partials(frames) == SelectSeq(frames, LAMBDA f : f.is_partial)

CeilDiv(a, b) == (a + b - 1) \div b

CarriesSources(f) == f.sources.present \/ f.meta_sources.present

\* C10: in a finished streamed turn that has partial frames, all partial
\* frames carry one query id, and the source list is on the last partial
\* frame and on no other frame of the turn.
C10_SourcesOnLastPartialOnly ==
    (strm.stream /\ strm.pc = "done" /\ Partials(strm.sent) # <<>>) =>
        LET n == Len(strm.sent)
            lastPartial == Len(Partials(strm.sent))
        IN  /\ \A j, k \in 1..n :
                  (strm.sent[j].is_partial /\ strm.sent[k].is_partial) =>
                      strm.sent[j].query_id = strm.sent[k].query_id
            /\ \A k \in 1..n :
                  CarriesSources(strm.sent[k]) <=>
                      (strm.sent[k].is_partial /\ k = lastPartial)

\* C26: a finished streamed turn has delivered the answer text once: the
\* contents of all its frames, joined in emission order, are the text, and
\* a turn that sent partial frames sent no complete frame after them.
C26_TextDeliveredOnce ==
    (strm.stream /\ strm.pc = "done") =>
        /\ Concat(strm.sent) = strm.text
        /\ Partials(strm.sent) # <<>> =>
               \A k \in 1..Len(strm.sent) : strm.sent[k].is_partial

\* ------------------------ SpecChat: websocket_endpoint, one call per socket
\* Each socket c is served by one call of websocket_endpoint; sockets are
\* numbered in the order in which their calls start, users in the order in
\* which their first socket authenticates.  A step runs
\* the synchronous code up to and including the next awaited call
\* (a ConnectionManager call, taken whole here; a socket read; a sleep).
\* The database calls and rag_service.query are synchronous, so they never
\* separate two steps.

Conns == 1..NumConns

\* What a read does on a socket that this side has closed depends on the
\* installed Starlette: receive_text raises WebSocketDisconnect once the
\* server hands over the disconnect message, or refuses the call with a
\* RuntimeError (AssertionError in older releases).  One process runs one of
\* the two for its whole life.
Builds == {"disconnects", "raises"}

\* The socket holds texts; what a text says is drawn where the code looks at
\* it.  Parsing (lines 171-179): not JSON, JSON that is no object (TypeError,
\* caught at line 226), JSON that fails ChatRequest validation, or a request.
ParseKinds == {"ok", "badjson", "notobject", "invalid"}
\* message.conversation_id (lines 268-277): absent, the id of a conversation
\* of this user, or an id that matches none
ConvKinds == {"none", "known", "unknown"}

AnswerTexts == {MakeText(len, 1) : len \in {0, chunk_size, chunk_size + MaxExtra}}

\* what the try block of process_chat_message comes to: it raises, or the
\* pipeline returns an answer text
Outcomes == {[ok |-> FALSE, text |-> <<>>]} \cup
            {[ok |-> TRUE, text |-> t] : t \in AnswerTexts}

NewHandler == [pc |-> "auth", id |-> None, user |-> None]

InitChat ==
    /\ InitReg
    /\ tasks = <<>>
    /\ strm = <<>>
    /\ handlers = [c \in Conns |-> NewHandler]
    /\ turns = [c \in Conns |-> <<>>]
    /\ inbox = [q |-> [c \in Conns |-> 0], n |-> 0]
    /\ NoTurn /\ NoIndex

\* the socket of handler c has not been closed by this side
IsOpen(c) == handlers[c].id \in DOMAIN active_connections

\* one manager.send_message call made by the handler of socket c
Sends(c, w) ==
    LET r == SendResult(active_connections, user_connections, handlers[c].id, w)
    IN  /\ active_connections' = r.ac
        /\ user_connections' = r.uc

\* lines 236-240: the finally clause of websocket_endpoint
Finally(c) ==
    LET r == Unregister(active_connections, user_connections,
                        handlers[c].id, handlers[c].user)
    IN  /\ active_connections' = r.ac
        /\ user_connections' = r.uc
        /\ handlers' = [handlers EXCEPT ![c].pc = "done"]

\* a handler that starts process_chat_message as a task of its own and goes
\* back to reading
DispatchPc_spawn == "receive"

\* lines 201-206: the handler awaits process_chat_message
DispatchPc == "awaiting"

\* the sequence without its k-th element
RemoveAt(seq, k) == [j \in 1..(Len(seq) - 1) |-> IF j < k THEN seq[j] ELSE seq[j + 1]]

\* process_chat_message returns: the awaiting handler reads again
TurnReturns(c, k) ==
    /\ turns' = [turns EXCEPT ![c] = RemoveAt(@, k)]
    /\ handlers' = [handlers EXCEPT ![c].pc =
                       IF @ = "awaiting" THEN "receive" ELSE @]

TurnGoes(c, k, t) ==
    /\ turns' = [turns EXCEPT ![c][k] = t]
    /\ UNCHANGED handlers

\* lines 128-142: authentication, then manager.connect
HandlerStart(c, auth, u, ws, acc) ==
    /\ handlers[c].pc = "auth"
    /\ c > 1 => handlers[c - 1].pc # "auth"
    /\ \A v \in 1..(u - 1) : \E d \in Conns : handlers[d].user = v
    /\ IF auth = "ok" /\ acc = "ok"
       THEN LET id == uuid4(nextId)
                r == Register(active_connections, user_connections, id, ws, u)
            IN  /\ active_connections' = r.ac
                /\ user_connections' = r.uc
                /\ handlers' = [handlers EXCEPT ![c] =
                                   [pc |-> "welcome", id |-> id, user |-> u]]
       ELSE /\ UNCHANGED <<active_connections, user_connections>>
            /\ handlers' = [handlers EXCEPT ![c].pc = "done"]
    /\ nextId' = IF auth = "ok" THEN nextId + 1 ELSE nextId
    /\ UNCHANGED <<last, closed, tasks, strm, turnvars, vector_store, turns, inbox>>

\* lines 145-159: the welcome frame
HandlerWelcome(c, w) ==
    /\ handlers[c].pc = "welcome"
    /\ Sends(c, w)
    /\ handlers' = [handlers EXCEPT ![c].pc = "receive"]
    /\ UNCHANGED <<nextId, last, closed, tasks, strm, turnvars, vector_store, turns, inbox>>

\* the client writes a text to its socket
ClientSend(c) ==
    /\ handlers[c].pc \notin {"auth", "done"}
    /\ inbox.n < MaxMsgs
    /\ inbox' = [q |-> [inbox.q EXCEPT ![c] = @ + 1], n |-> inbox.n + 1]
    /\ UNCHANGED <<regvars, tasks, strm, turnvars, vector_store, handlers, turns>>

\* lines 165-206: receive_text returns a text; a malformed one gets an error
\* frame, a request gets its echo frame and process_chat_message is called
HandlerReceive(c, kind, w) ==
    /\ handlers[c].pc = "receive"
    /\ IsOpen(c)
    /\ inbox.q[c] > 0
    /\ inbox' = [inbox EXCEPT !.q[c] = @ - 1]
    /\ Sends(c, w)
    /\ IF kind = "ok"
       THEN /\ turns' = [turns EXCEPT ![c] =
                           Append(@, [stage |-> "typing", text |-> <<>>,
                                      i |-> 0])]
            /\ handlers' = [handlers EXCEPT ![c].pc = DispatchPc]
       ELSE UNCHANGED <<turns, handlers>>
    /\ UNCHANGED <<nextId, last, closed, tasks, strm, turnvars, vector_store>>

\* lines 208-220: the read timed out; ping on the socket itself
HandlerTimeout(c, w) ==
    /\ handlers[c].pc = "receive"
    /\ IsOpen(c)
    /\ inbox.q[c] = 0
    /\ IF w = "ok"
       THEN /\ handlers' = [handlers EXCEPT ![c].pc = "pong"]
            /\ UNCHANGED <<active_connections, user_connections>>
       ELSE Finally(c)
    /\ UNCHANGED <<nextId, last, closed, tasks, strm, turnvars, vector_store, turns, inbox>>

\* lines 213-217: the 5 s wait for a pong; any text counts and is dropped
HandlerPong(c) ==
    /\ handlers[c].pc = "pong"
    /\ IF inbox.q[c] > 0
       THEN /\ inbox' = [inbox EXCEPT !.q[c] = @ - 1]
            /\ handlers' = [handlers EXCEPT ![c].pc = "receive"]
            /\ UNCHANGED <<active_connections, user_connections>>
       ELSE /\ Finally(c)
            /\ UNCHANGED inbox
    /\ UNCHANGED <<nextId, last, closed, tasks, strm, turnvars, vector_store, turns>>

\* lines 222-224: the client closed the socket, receive_text raises
\* WebSocketDisconnect
HandlerClientClose(c) ==
    /\ handlers[c].pc = "receive"
    /\ IsOpen(c)
    /\ inbox.q[c] = 0
    /\ Finally(c)
    /\ UNCHANGED <<nextId, last, closed, tasks, strm, turnvars, vector_store, turns, inbox>>

\* a read on a socket this side has closed (an earlier send failed):
\* WebSocketDisconnect (lines 222-224), or an error that is none (lines
\* 226-228: _send_error for an id that is gone, then the loop reads again),
\* as the installed Starlette has it
HandlerReadClosed(c, build) ==
    /\ handlers[c].pc = "receive"
    /\ ~IsOpen(c)
    /\ IF build = "disconnects"
       THEN Finally(c)
       ELSE UNCHANGED <<active_connections, user_connections, handlers>>
    /\ UNCHANGED <<nextId, last, closed, tasks, strm, turnvars, vector_store, turns, inbox>>

\* lines 256-263: the typing indicator
TurnTyping(c, k, w) ==
    /\ turns[c][k].stage = "typing"
    /\ Sends(c, w)
    /\ TurnGoes(c, k, [turns[c][k] EXCEPT !.stage = "resolve"])
    /\ UNCHANGED <<nextId, last, closed, tasks, strm, turnvars, vector_store, inbox>>

\* lines 301-433: store the user message, run the pipeline, store the
\* answer, and make the first delivery call (the error frame when anything
\* in the try block raised)
RunPipeline(c, k, w, out, stream) ==
    LET t == turns[c][k] IN
    /\ Sends(c, w)
    /\ IF ~out.ok
       THEN TurnReturns(c, k)
       ELSE IF stream /\ 0 < Len(out.text)
            THEN TurnGoes(c, k, [t EXCEPT !.stage = "stream", !.text = out.text,
                                          !.i = chunk_size])
            ELSE TurnReturns(c, k)

\* lines 266-299: find the conversation or create one
TurnResolve(c, k, conv, w) ==
    /\ turns[c][k].stage = "resolve"
    /\ CASE conv = "unknown" ->
               Sends(c, w) /\ TurnReturns(c, k)
         [] conv = "none" ->
               /\ Sends(c, w)
               /\ TurnGoes(c, k, [turns[c][k] EXCEPT !.stage = "body"])
         [] conv = "known" ->
               \E out \in Outcomes, stream \in BOOLEAN :
                   RunPipeline(c, k, w, out, stream)
    /\ UNCHANGED <<nextId, last, closed, tasks, strm, turnvars, vector_store, inbox>>

\* lines 301-433 after the frame that announces the new conversation
TurnBody(c, k, w, out, stream) ==
    /\ turns[c][k].stage = "body"
    /\ RunPipeline(c, k, w, out, stream)
    /\ UNCHANGED <<nextId, last, closed, tasks, strm, turnvars, vector_store, inbox>>

\* lines 385-412 after the sleep that follows a partial frame
TurnStream(c, k, w) ==
    /\ turns[c][k].stage = "stream"
    /\ LET t == turns[c][k] IN
       IF t.i < Len(t.text)
       THEN /\ Sends(c, w)
            /\ TurnGoes(c, k, [t EXCEPT !.i = @ + chunk_size])
       ELSE /\ IF Len(t.text) % chunk_size = 0
               THEN Sends(c, w)
               ELSE UNCHANGED <<active_connections, user_connections>>
            /\ TurnReturns(c, k)
    /\ UNCHANGED <<nextId, last, closed, tasks, strm, turnvars, vector_store, inbox>>

NextChat ==
    \E c \in Conns :
        \/ \E auth \in {"ok", "reject"}, u \in Users, acc \in AcceptOutcomes :
              HandlerStart(c, auth, u, WebSocket(c), acc)
        \/ \E w \in WriteOutcomes : HandlerWelcome(c, w)
        \/ ClientSend(c)
        \/ \E kind \in ParseKinds, w \in WriteOutcomes :
              HandlerReceive(c, kind, w)
        \/ \E w \in WriteOutcomes : HandlerTimeout(c, w)
        \/ HandlerPong(c)
        \/ HandlerClientClose(c)
        \/ \E build \in Builds : HandlerReadClosed(c, build)
        \/ \E k \in DOMAIN turns[c], w \in WriteOutcomes : TurnTyping(c, k, w)
        \/ \E k \in DOMAIN turns[c], conv \in ConvKinds, w \in WriteOutcomes :
              TurnResolve(c, k, conv, w)
        \/ \E k \in DOMAIN turns[c], w \in WriteOutcomes,
              out \in Outcomes, stream \in BOOLEAN :
              TurnBody(c, k, w, out, stream)
        \/ \E k \in DOMAIN turns[c], w \in WriteOutcomes : TurnStream(c, k, w)

SpecChat == InitChat /\ [][NextChat]_vars

\* ------------------------------------------------- handler claim (SpecChat)

\* C8: a socket never has two process_chat_message calls in progress, and
\* its handler takes no text from the socket while one is in progress.
C8_OneTurnPerConnection ==
    \A c \in Conns :
        /\ Len(turns[c]) <= 1
        /\ handlers[c].pc \in {"receive", "pong"} => turns[c] = <<>>

\* the next text of a client is waiting on its socket while the turn for its
\* previous text is between two partial frames, and another socket is being
\* served
C8_Witness ==
    \E c1, c2 \in Conns :
        /\ c1 # c2
        /\ handlers[c1].pc = "awaiting"
        /\ turns[c1] # <<>> /\ turns[c1][1].stage = "stream"
        /\ inbox.q[c1] > 0
        /\ handlers[c2].pc = "receive"


\* --------------- SpecTurn: one socket, its turns and what they persist
\* One call of websocket_endpoint for a client of user Me.  The tables hold
\* a conversation of Me and one of another user from the start.  A step
\* runs the synchronous code up to and including the next awaited
\* manager.send_message call or socket read; the liveness probe is left to
\* SpecChat.  The handler's Session `db` is the one get_db made for the call.

\* user.id of the authenticated user, and the id of some other user
Me == 1
Stranger == 2

\* a conversation_id that is the empty string
EmptyStr == -1

\* `if message.conversation_id:` (line 268)
Truthy(x) == x # None /\ x # EmptyStr

\* the conversation_id values a request can carry
ReqConvs == {None, EmptyStr} \cup (1..3)

\* the rows present before the call: conversation 1 of Me, 2 of Stranger;
\* the Session is the one get_db made for the call (lines 105-110), before
\* the first text was read (opened in turn 0), and the code makes no other
InitDb ==
    [conversations |-> {[id |-> 1, user_id |-> Me, updates |-> 0],
                        [id |-> 2, user_id |-> Stranger, updates |-> 0]},
     messages |-> <<>>,
     queries |-> <<>>,
     pending |-> <<>>,
     opened |-> 0,
     nextConv |-> 3]

\* db.add(obj), and an attribute set on a loaded row: staged in the Session
Stage(d, op) == [d EXCEPT !.pending = Append(@, op)]

RECURSIVE Flush(_, _)
Flush(d, ops) ==
    IF ops = <<>> THEN d
    ELSE LET op == Head(ops)
             d1 == CASE op.op = "conversation" ->
                         [d EXCEPT !.conversations = @ \cup
                             {[id |-> op.id, user_id |-> op.user_id, updates |-> 0]}]
                      [] op.op = "message" ->
                         [d EXCEPT !.messages = Append(@,
                             [conversation_id |-> op.id, role |-> op.role,
                              turn |-> op.turn])]
                      [] op.op = "touch" ->
                         [d EXCEPT !.conversations =
                             {IF c.id = op.id THEN [c EXCEPT !.updates = @ + 1] ELSE c
                                : c \in @}]
         IN  Flush(d1, Tail(ops))

\* db.commit(): everything staged reaches the tables
Commit(d) == [Flush(d, d.pending) EXCEPT !.pending = <<>>]

\* a lookup by id alone, whoever owns the conversation
FindConversation_any(d, id, user) ==
    {c \in d.conversations : c.id = id}

\* lines 269-272: the conversation with this id that belongs to the user
FindConversation(d, id, user) ==
    {c \in d.conversations : c.id = id /\ c.user_id = user}

NewConn == [pc |-> "auth", id |-> None, user |-> None, n |-> 0, build |-> None,
            req |-> [conv |-> None, stream |-> FALSE], conv |-> None,
            text |-> <<>>, i |-> 0, frames |-> <<>>, calls |-> 0,
            ev |-> "none"]

InitTurn ==
    /\ InitReg
    /\ tasks = <<>> /\ strm = <<>>
    /\ handlers = <<>> /\ turns = <<>> /\ inbox = <<>>
    /\ NoIndex
    /\ db = InitDb
    /\ \E b \in Builds : conn = [NewConn EXCEPT !.build = b]

\* the socket is open as long as this side has not closed it
Open == conn.id \in DOMAIN active_connections

\* one manager.send_message call for this socket: the maps afterwards and
\* the frame as logged
TurnSend(ac, uc, type, w) ==
    LET r == SendResult(ac, uc, conn.id, w)
    IN  [ac |-> r.ac, uc |-> r.uc, frame |-> [type |-> type, sent |-> r.ret]]

Apply(r) ==
    /\ active_connections' = r.ac
    /\ user_connections' = r.uc

\* lines 128-142: authentication, then manager.connect
TConnect(auth, acc) ==
    /\ conn.pc = "auth"
    /\ IF auth = "ok" /\ acc = "ok"
       THEN LET id == uuid4(nextId)
                r == Register(active_connections, user_connections, id,
                              WebSocket(nextId), Me)
            IN  /\ Apply(r)
                /\ conn' = [conn EXCEPT !.pc = "welcome", !.id = id, !.user = Me,
                                        !.ev = "connected"]
       ELSE /\ UNCHANGED <<active_connections, user_connections>>
            /\ conn' = [conn EXCEPT !.pc = "done", !.ev = "refused"]
    /\ nextId' = IF auth = "ok" THEN nextId + 1 ELSE nextId
    /\ UNCHANGED <<last, closed, tasks, strm, handlers, turns, inbox, db,
                   vector_store>>

\* lines 145-159: the welcome frame
TWelcome(w) ==
    /\ conn.pc = "welcome"
    /\ LET r == TurnSend(active_connections, user_connections, "system", w)
       IN  /\ Apply(r)
           /\ conn' = [conn EXCEPT !.pc = "receive", !.frames = <<r.frame>>,
                                   !.ev = "welcomed"]
    /\ UNCHANGED <<nextId, last, closed, tasks, strm, handlers, turns, inbox,
                   db, vector_store>>

\* a loop whose two parse handlers report the error and then go on with the
\* turn instead of reading again
TReceive_through(kind, cv, st, w) ==
    /\ conn.pc = "receive"
    /\ Open
    /\ conn.n < MaxTexts
    /\ LET r == TurnSend(active_connections, user_connections,
                         IF kind = "ok" THEN "user" ELSE "error", w)
       IN  /\ Apply(r)
           /\ conn' = [conn EXCEPT !.pc = "typing", !.n = @ + 1,
                          !.req = [conv |-> cv, stream |-> st],
                          !.conv = None, !.text = <<>>, !.i = 0,
                          !.frames = <<r.frame>>,
                          !.ev = IF kind = "ok" THEN "request" ELSE "malformed"]
    /\ UNCHANGED <<nextId, last, closed, tasks, strm, handlers, turns, inbox,
                   db, vector_store>>

\* lines 165-198: receive_text returns a text.  A text that is not JSON, is
\* JSON but no object (TypeError, caught at line 226) or fails ChatRequest
\* validation gets one _send_error call; a request gets its echo frame.
TReceive(kind, cv, st, w) ==
    /\ conn.pc = "receive"
    /\ Open
    /\ conn.n < MaxTexts
    /\ IF kind = "ok"
       THEN LET r == TurnSend(active_connections, user_connections, "user", w)
            IN  /\ Apply(r)
                /\ conn' = [conn EXCEPT !.pc = "typing", !.n = @ + 1,
                               !.req = [conv |-> cv, stream |-> st],
                               !.conv = None, !.text = <<>>, !.i = 0,
                               !.frames = <<r.frame>>, !.ev = "request"]
       ELSE LET r == TurnSend(active_connections, user_connections, "error", w)
            IN  /\ Apply(r)
                /\ conn' = [conn EXCEPT !.n = @ + 1,
                               !.req = [conv |-> None, stream |-> FALSE],
                               !.conv = None, !.text = <<>>, !.i = 0,
                               !.frames = <<r.frame>>, !.ev = "malformed"]
    /\ UNCHANGED <<nextId, last, closed, tasks, strm, handlers, turns, inbox,
                   db, vector_store>>

\* lines 256-263: the typing indicator
TTyping(w) ==
    /\ conn.pc = "typing"
    /\ LET r == TurnSend(active_connections, user_connections, "typing", w)
       IN  /\ Apply(r)
           /\ conn' = [conn EXCEPT !.pc = "resolve",
                          !.frames = Append(@, r.frame), !.ev = "typing"]
    /\ UNCHANGED <<nextId, last, closed, tasks, strm, handlers, turns, inbox,
                   db, vector_store>>

\* what the handler's turn carries on with after one of its steps
TurnOn(r, pc, ev) ==
    [conn EXCEPT !.pc = pc, !.frames = Append(@, r.frame), !.ev = ev]

\* lines 369-375, run after db.add(assistant_message): the update of the
\* conversation goes through, or raises (conversation.metadata of a row
\* loaded from the tables is not the JSON column, which the mapped class
\* calls metadata_, and `{**...}` of it is a TypeError)
UpdateOutcomes == {"ok", "raises"}

\* the staged writes of the answer (lines 366 and 370)
AnswerOps(cid, t) ==
    <<[op |-> "message", id |-> cid, user_id |-> Me, role |-> "assistant",
       turn |-> t],
      [op |-> "touch", id |-> cid, user_id |-> Me, role |-> "none", turn |-> t]>>

\* lines 301-433 for the conversation cid: store the user message, call the
\* pipeline (RAGService() and query), then either report the failure or
\* store the answer, update the conversation and make the first delivery;
\* when the update raises, the answer stays staged in the Session and the
\* except clause reports the failure (it calls no rollback)
TurnBody1(cid, w, out, upd) ==
    LET d1 == Commit(Stage(db, [op |-> "message", id |-> cid, user_id |-> Me,
                                role |-> "user", turn |-> conn.n]))
        d2 == Commit(Stage(Stage(d1, [op |-> "message", id |-> cid,
                                      user_id |-> Me, role |-> "assistant",
                                      turn |-> conn.n]),
                           [op |-> "touch", id |-> cid, user_id |-> Me,
                            role |-> "none", turn |-> conn.n]))
    IN  IF ~out.ok
        THEN LET r == TurnSend(active_connections, user_connections, "error", w)
             IN  /\ Apply(r)
                 /\ db' = d1
                 /\ conn' = [TurnOn(r, "receive", "failed") EXCEPT
                                !.conv = cid, !.calls = @ + 1]
        ELSE IF upd = "raises"
        THEN LET r == TurnSend(active_connections, user_connections, "error", w)
             IN  /\ Apply(r)
                 /\ db' = Stage(Stage(d1, AnswerOps(cid, conn.n)[1]),
                                AnswerOps(cid, conn.n)[2])
                 /\ conn' = [TurnOn(r, "receive", "update_failed") EXCEPT
                                !.conv = cid, !.calls = @ + 1]
        ELSE IF conn.req.stream /\ Len(out.text) > 0
             THEN LET r == TurnSend(active_connections, user_connections,
                                    "partial", w)
                  IN  /\ Apply(r)
                      /\ db' = d2
                      /\ conn' = [TurnOn(r, "stream", "answered") EXCEPT
                                     !.conv = cid, !.calls = @ + 1,
                                     !.text = out.text, !.i = chunk_size]
             ELSE LET r == TurnSend(active_connections, user_connections,
                                    "complete", w)
                  IN  /\ Apply(r)
                      /\ db' = d2
                      /\ conn' = [TurnOn(r, "receive", "answered") EXCEPT
                                     !.conv = cid, !.calls = @ + 1,
                                     !.text = out.text]

\* lines 266-299: find the conversation or create one
TResolve(w, out, upd) ==
    /\ conn.pc = "resolve"
    /\ IF ~Truthy(conn.req.conv)
       THEN LET d1 == Commit(Stage(db, [op |-> "conversation", id |-> db.nextConv,
                                        user_id |-> Me, role |-> "none",
                                        turn |-> conn.n]))
                r == TurnSend(active_connections, user_connections, "system", w)
            IN  /\ Apply(r)
                /\ db' = [d1 EXCEPT !.nextConv = @ + 1]
                /\ conn' = [TurnOn(r, "body", "created") EXCEPT
                               !.conv = db.nextConv]
       ELSE IF FindConversation(db, conn.req.conv, Me) = {}
            THEN LET r == TurnSend(active_connections, user_connections,
                                   "error", w)
                 IN  /\ Apply(r)
                     /\ db' = db
                     /\ conn' = TurnOn(r, "receive", "notfound")
            ELSE TurnBody1(conn.req.conv, w, out, upd)
    /\ UNCHANGED <<nextId, last, closed, tasks, strm, handlers, turns, inbox,
                   vector_store>>

\* lines 301-433 after the frame that announces the new conversation
TBody(w, out) ==
    /\ conn.pc = "body"
    /\ TurnBody1(conn.conv, w, out, "ok")
    /\ UNCHANGED <<nextId, last, closed, tasks, strm, handlers, turns, inbox,
                   vector_store>>

\* lines 385-412 after the sleep that follows a partial frame
TStream(w) ==
    /\ conn.pc = "stream"
    /\ IF conn.i < Len(conn.text)
       THEN LET r == TurnSend(active_connections, user_connections, "partial", w)
            IN  /\ Apply(r)
                /\ conn' = [TurnOn(r, "stream", "partial") EXCEPT
                               !.i = @ + chunk_size]
       ELSE IF Len(conn.text) % chunk_size = 0
            THEN LET r == TurnSend(active_connections, user_connections,
                                   "complete", w)
                 IN  /\ Apply(r)
                     /\ conn' = TurnOn(r, "receive", "streamed")
            ELSE /\ UNCHANGED <<active_connections, user_connections>>
                 /\ conn' = [conn EXCEPT !.pc = "receive", !.ev = "streamed"]
    /\ UNCHANGED <<nextId, last, closed, tasks, strm, handlers, turns, inbox,
                   db, vector_store>>

\* lines 236-240: the finally clause of websocket_endpoint
TFinally(ev) ==
    LET r == Unregister(active_connections, user_connections, conn.id, conn.user)
    IN  /\ Apply(r)
        /\ conn' = [conn EXCEPT !.pc = "done", !.ev = ev]

\* lines 222-224: the client closed the socket
TClientClose ==
    /\ conn.pc = "receive"
    /\ Open
    /\ TFinally("closed")
    /\ UNCHANGED <<nextId, last, closed, tasks, strm, handlers, turns, inbox,
                   db, vector_store>>

\* lines 208-220: the read timed out; the ping goes out on the socket
\* itself, and a ping that cannot be written ends the loop
TTimeout(w) ==
    /\ conn.pc = "receive"
    /\ Open
    /\ IF w = "ok"
       THEN /\ UNCHANGED <<active_connections, user_connections>>
            /\ conn' = [conn EXCEPT !.pc = "pong", !.ev = "ping",
                           !.frames = <<[type |-> "ping", sent |-> TRUE]>>]
       ELSE TFinally("dead")
    /\ UNCHANGED <<nextId, last, closed, tasks, strm, handlers, turns, inbox,
                   db, vector_store>>

\* what the 5 s wait reads: a pong text, a chat message the client sent in
\* the meantime, nothing, or the end of the socket
PongOutcomes == {"text", "request", "timeout", "disconnect"}

\* a loop that goes on reading when no pong came
TPong_stay(got) ==
    /\ conn.pc = "pong"
    /\ UNCHANGED <<active_connections, user_connections>>
    /\ conn' = [conn EXCEPT !.pc = "receive",
                   !.ev = CASE got = "text" -> "pong"
                            [] got = "request" -> "swallowed"
                            [] OTHER -> "nopong"]
    /\ UNCHANGED <<nextId, last, closed, tasks, strm, handlers, turns, inbox,
                   db, vector_store>>

\* lines 213-220: the 5 s wait for a pong; any text counts and is dropped
\* unread (the value of receive_text is not kept), be it a pong or a chat
\* message; a timeout or a closed socket ends the loop
TPong(got) ==
    /\ conn.pc = "pong"
    /\ IF got \in {"text", "request"}
       THEN /\ UNCHANGED <<active_connections, user_connections>>
            /\ conn' = [conn EXCEPT !.pc = "receive",
                           !.ev = IF got = "text" THEN "pong" ELSE "swallowed"]
       ELSE TFinally("nopong")
    /\ UNCHANGED <<nextId, last, closed, tasks, strm, handlers, turns, inbox,
                   db, vector_store>>

\* a read on a socket this side has closed (an earlier send failed):
\* WebSocketDisconnect (lines 222-224), or an error that is none (lines
\* 226-228: _send_error for an id that is gone, then the loop reads again)
TReadClosed ==
    /\ conn.pc = "receive"
    /\ ~Open
    /\ IF conn.build = "disconnects"
       THEN TFinally("closed")
       ELSE /\ UNCHANGED <<active_connections, user_connections>>
            /\ conn' = [conn EXCEPT !.ev = "read_error"]
    /\ UNCHANGED <<nextId, last, closed, tasks, strm, handlers, turns, inbox,
                   db, vector_store>>

NextTurn ==
    \/ \E auth \in {"ok", "reject"}, acc \in AcceptOutcomes : TConnect(auth, acc)
    \/ \E w \in WriteOutcomes : TWelcome(w)
    \/ \E kind \in ParseKinds, cv \in ReqConvs, st \in BOOLEAN,
          w \in WriteOutcomes : TReceive(kind, cv, st, w)
    \/ \E w \in WriteOutcomes : TTyping(w)
    \/ \E w \in WriteOutcomes, out \in Outcomes, upd \in UpdateOutcomes :
          TResolve(w, out, upd)
    \/ \E w \in WriteOutcomes, out \in Outcomes : TBody(w, out)
    \/ \E w \in WriteOutcomes : TStream(w)
    \/ TClientClose
    \/ \E w \in WriteOutcomes : TTimeout(w)
    \/ \E got \in PongOutcomes : TPong(got)
    \/ TReadClosed

SpecTurn == InitTurn /\ [][NextTurn]_vars

\* Every awaited call of the handler returns or raises: a send completes or
\* fails, a read ends with a text, a close or its timeout, and the event
\* loop resumes the coroutine.  So a handler that can take a step takes one.
SpecTurnFair == SpecTurn /\ WF_vars(NextTurn)

\* ----------------------------------------------------- turn claims (SpecTurn)

QueriesOf(d, n) == {k \in DOMAIN d.queries : d.queries[k].turn = n}

\* the turn of the n-th text stored an assistant message
HasAssistant(d, n) ==
    \E k \in DOMAIN d.messages :
        d.messages[k].turn = n /\ d.messages[k].role = "assistant"

\* C13: when the pipeline fails in a turn, the Query of that turn is marked
\* failed, one error frame is sent, no assistant message of the turn is
\* stored, and the handler goes back to reading.
C13_PipelineFailure ==
    [][conn'.ev = "failed" =>
          /\ \E k \in QueriesOf(db', conn.n) : db'.queries[k].status = "failed"
          /\ conn'.frames[Len(conn'.frames)].type = "error"
          /\ Len(conn'.frames) = Len(conn.frames) + 1
          /\ ~HasAssistant(db', conn.n)
          /\ conn'.pc = "receive"]_vars

WriteLost == \E k \in DOMAIN conn.frames : ~conn.frames[k].sent

\* C15: once a write on the socket has failed, the handler eventually is
\* through its finally clause with the socket out of the registry, and from
\* then on it takes no text, sends no frame and touches no table.
C15_TransportFailureIsFatal ==
    /\ WriteLost ~> (conn.pc = "done" /\ ~Open)
    /\ [][conn.pc = "done" => (conn' = conn /\ db' = db)]_vars

\* the moves of a Query status that the claim allows
StatusMoves == {<<"pending", "processing">>, <<"processing", "completed">>,
                <<"processing", "failed">>}

\* C16: a Query's status only moves pending -> processing -> completed or
\* failed, a Query is never removed, and a turn that has called the pipeline
\* leaves a Query of its own in completed or failed.
C16_QueryStatusMonotonic ==
    [][/\ \A k \in DOMAIN db.queries :
              /\ k \in DOMAIN db'.queries
              /\ \/ db'.queries[k].status = db.queries[k].status
                 \/ <<db.queries[k].status, db'.queries[k].status>> \in StatusMoves
       /\ conn'.calls > conn.calls =>
              \E k \in QueriesOf(db', conn.n) :
                  db'.queries[k].status \in {"completed", "failed"}]_vars

\* ------------- SpecIndex: the vector index and the retrieval that reads it
\* vector_store_manager (core/vector_store.py) is one Chroma collection:
\* mem is what the collection holds, disk what persist() last wrote, ever
\* tells whether anything was ever added.  A chunk of a document is known by
\* its position; the splitter numbers the chunks of a document 1..n.  The
\* calls are synchronous, so each is one step.

Docs == 1..NumDocs

\* line 160: f"doc_{document_id}_chunk_{chunk.chunk_index}", a pair here
\* (both parts are integers, so the string names the pair)
ChunkId(document_id, chunk_index) == <<document_id, chunk_index>>

Entry(id, document_id, chunk_index) ==
    [id |-> id, document_id |-> document_id, chunk_index |-> chunk_index]

\* Chroma.add_documents with ids: an id that is there is overwritten
Upsert(mem, entries) ==
    {e \in mem : \A n \in entries : n.id # e.id} \cup entries

InitIndex ==
    /\ active_connections = <<>> /\ user_connections = <<>>
    /\ nextId = 1 /\ closed = {}
    /\ tasks = <<>> /\ strm = <<>>
    /\ handlers = <<>> /\ turns = <<>> /\ inbox = <<>>
    /\ db = InitDb /\ conn = <<>>
    /\ last = [op |-> "none"]
    /\ vector_store = [mem |-> {}, disk |-> {}, ever |-> FALSE, ops |-> 0,
                       first |-> {}]

AddOutcomes == {"ok", "store_error", "persist_error"}

\* lines 73-113: add_documents(documents, ids) for the entries made by
\* add_document_chunks; an exception of the store or of persist() propagates
add_documents(vs, entries, o) ==
    IF entries = {} THEN [vs |-> vs, ret |-> "ok", ids |-> {}]
    ELSE IF o = "store_error" THEN [vs |-> vs, ret |-> "raised", ids |-> {}]
    ELSE LET mem == Upsert(vs.mem, entries)
         IN  IF o = "persist_error"
             THEN [vs |-> [vs EXCEPT !.mem = mem, !.ever = TRUE],
                   ret |-> "raised", ids |-> {}]
             ELSE [vs |-> [vs EXCEPT !.mem = mem, !.disk = mem, !.ever = TRUE],
                   ret |-> "ok", ids |-> {e.id : e \in entries}]

\* chunk ids that depend on how much the index holds
add_document_chunks_counted(vs, document_id, n, o) ==
    add_documents(vs, {Entry(ChunkId(document_id, i + Cardinality(vs.mem)),
                             document_id, i) : i \in 1..n}, o)

\* lines 115-163: add_document_chunks(chunks, document_id), chunks 1..n
add_document_chunks(vs, document_id, n, o) ==
    add_documents(vs, {Entry(ChunkId(document_id, i), document_id, i) :
                          i \in 1..n}, o)

IndexAdd(document_id, n, o) ==
    /\ vector_store.ops < MaxOps
    /\ LET r == add_document_chunks(vector_store, document_id, n, o)
           known == {f \in r.vs.first : f.document_id = document_id /\ f.n = n}
       IN  /\ vector_store' =
                  [r.vs EXCEPT !.ops = @ + 1,
                               !.first = IF r.ret = "ok" /\ known = {}
                                         THEN @ \cup {[document_id |-> document_id,
                                                       n |-> n, ids |-> r.ids]}
                                         ELSE @]
           /\ last' = [op |-> "add", document_id |-> document_id, n |-> n,
                       ret |-> r.ret, ids |-> r.ids,
                       before |-> Cardinality(vector_store.mem)]
    /\ UNCHANGED <<active_connections, user_connections, nextId, closed, tasks,
                   strm, handlers, turns, inbox, db, conn>>

\* what the calls of delete_document come to on the installed libraries:
\* the import at line 235 fails, the store lacks delete by filter, the store
\* raises (some chunks of the document may be gone by then), persist()
\* raises, or all of it works
DeleteOutcomes == {"ok", "import_error", "unsupported", "store_error",
                   "persist_error"}

ChunksOf(mem, document_id) == {e \in mem : e.document_id = document_id}

\* a delete_document that reports success whatever happened
delete_document_true(vs, document_id, o, gone) ==
    CASE o \in {"unsupported", "import_error"} -> [vs |-> vs, ret |-> TRUE]
      [] o = "store_error" -> [vs |-> [vs EXCEPT !.mem = @ \ gone], ret |-> TRUE]
      [] o = "persist_error" ->
            [vs |-> [vs EXCEPT !.mem = @ \ ChunksOf(vs.mem, document_id)],
             ret |-> TRUE]
      [] OTHER ->
            LET mem == vs.mem \ ChunksOf(vs.mem, document_id)
            IN  [vs |-> [vs EXCEPT !.mem = mem, !.disk = mem], ret |-> TRUE]

\* lines 221-256: delete_document(document_id); gone is what a failing
\* store had removed before it raised
delete_document(vs, document_id, o, gone) ==
    CASE o \in {"unsupported", "import_error"} -> [vs |-> vs, ret |-> FALSE]
      [] o = "store_error" -> [vs |-> [vs EXCEPT !.mem = @ \ gone], ret |-> FALSE]
      [] o = "persist_error" ->
            [vs |-> [vs EXCEPT !.mem = @ \ ChunksOf(vs.mem, document_id)],
             ret |-> FALSE]
      [] OTHER ->
            LET mem == vs.mem \ ChunksOf(vs.mem, document_id)
            IN  [vs |-> [vs EXCEPT !.mem = mem, !.disk = mem], ret |-> TRUE]

IndexDelete(document_id, o, gone) ==
    /\ vector_store.ops < MaxOps
    /\ gone \subseteq ChunksOf(vector_store.mem, document_id)
    /\ o # "store_error" => gone = {}
    /\ LET r == delete_document(vector_store, document_id, o, gone)
       IN  /\ vector_store' = [r.vs EXCEPT !.ops = @ + 1]
           /\ last' = [op |-> "delete", document_id |-> document_id,
                       outcome |-> o, ret |-> r.ret,
                       had |-> Cardinality(ChunksOf(vector_store.mem, document_id)),
                       others |-> vector_store.mem \
                                     ChunksOf(vector_store.mem, document_id)]
    /\ UNCHANGED <<active_connections, user_connections, nextId, closed, tasks,
                   strm, handlers, turns, inbox, db, conn>>

NextIndex ==
    \/ \E d \in Docs, n \in 0..MaxChunks, o \in AddOutcomes : IndexAdd(d, n, o)
    \/ \E d \in Docs, o \in DeleteOutcomes, gone \in SUBSET vector_store.mem :
          IndexDelete(d, o, gone)

SpecIndex == InitIndex /\ [][NextIndex]_vars

\* --------------------------------------------------- index claims (SpecIndex)

\* the chunks 1..n of the document are all in the collection
Holds(mem, document_id, n) ==
    \A i \in 1..n : \E e \in mem : e.document_id = document_id /\ e.chunk_index = i

\* C19: adding the chunks of a document that the index already holds leaves
\* the number of entries as it was, and a call that returns gives the ids
\* that the first such call gave; the ids are made of the document id and
\* the chunk position alone.
C19_UpsertIdempotent ==
    [][(/\ last'.op = "add"
        /\ vector_store'.ops = vector_store.ops + 1
        /\ last'.n >= 1
        /\ Holds(vector_store.mem, last'.document_id, last'.n))
       =>
          /\ Cardinality(vector_store'.mem) = Cardinality(vector_store.mem)
          /\ last'.ret = "ok" =>
                /\ last'.ids = {ChunkId(last'.document_id, i) : i \in 1..last'.n}
                /\ \A f \in vector_store'.first :
                       (f.document_id = last'.document_id /\ f.n = last'.n)
                           => f.ids = last'.ids]_vars

\* both chunks of a document were added a second time, next to a chunk of
\* another document, and the call returned
C19_Witness ==
    /\ last.op = "add" /\ last.ret = "ok" /\ last.n = 2
    /\ vector_store.ops = 3
    /\ last.before = 3
    /\ Cardinality(vector_store.mem) = 3
    /\ \E f \in vector_store.first :
           f.document_id = last.document_id /\ f.n = 2 /\ f.ids = last.ids

\* C28: when add_document_chunks has returned for a document, the entries
\* of that document in the collection are the chunks of the call and no
\* other: none of an earlier, longer list is left.
C28_UpsertReplaces ==
    (last.op = "add" /\ last.ret = "ok") =>
        ChunksOf(vector_store.mem, last.document_id) =
            {Entry(ChunkId(last.document_id, i), last.document_id, i) :
                i \in 1..last.n}

RetrieverK == 4

\* rag_service.py 64-85: __init__ always builds the chain over the shared
\* collection, whatever the collection holds
RAGService == [qa_chain |-> TRUE, k |-> RetrieverK]

\* the k entries most similar to the question: any k of them, all if fewer
Retrieve(mem, k) ==
    {S \in SUBSET mem : Cardinality(S) = Min(k, Cardinality(mem))}

\* what running the chain comes to: the model answers, the model fails, or
\* the store refuses the search (a release of Chroma that raises when it
\* holds fewer than k entries)
ChainOutcomes == {"answer", "llm_error", "search_error"}

\* rag_service.py 278-296: query(question)
query(svc, mem, o, S) ==
    IF ~svc.qa_chain
    THEN [ret |-> "raised", error |-> "not_ready", llm |-> FALSE, sources |-> {},
          k |-> svc.k]
    ELSE CASE o = "search_error" ->
                [ret |-> "raised", error |-> "search", llm |-> FALSE,
                 sources |-> {}, k |-> svc.k]
           [] o = "llm_error" ->
                [ret |-> "raised", error |-> "generation", llm |-> TRUE,
                 sources |-> {}, k |-> svc.k]
           [] OTHER ->
                [ret |-> "answer", error |-> "none", llm |-> TRUE,
                 sources |-> S, k |-> svc.k]

\* the envelope's document_ids (None, or a list of ids: one document, or
\* all of them) and a max_results field, which ChatRequest does not declare
ReqDocumentIds ==
    {[present |-> FALSE, ids |-> {}]} \cup
    {[present |-> TRUE, ids |-> D] : D \in {{d} : d \in Docs} \cup {Docs}}
ReqMaxResults == {1, RetrieverK}

\* chat.py 314-320: RAGService() and rag_service.query(question=...)
IndexQuery(document_ids, max_results, o, S) ==
    /\ S \in Retrieve(vector_store.mem, RAGService.k)
    /\ o = "search_error" => Cardinality(vector_store.mem) < RAGService.k
    /\ LET r == query(RAGService, vector_store.mem, o, S)
       IN  last' = [op |-> "query", document_ids |-> document_ids,
                    max_results |-> max_results, ret |-> r.ret,
                    error |-> r.error, llm |-> r.llm, sources |-> r.sources,
                    k |-> r.k, ever |-> vector_store.ever]
    /\ UNCHANGED <<active_connections, user_connections, nextId, closed, tasks,
                   strm, handlers, turns, inbox, db, conn, vector_store>>


\* the entries of the documents whose chunks 1..f[d] are indexed
Indexed(f) ==
    UNION {{Entry(ChunkId(d, i), d, i) : i \in 1..f[d]} : d \in Docs}

InitQuery ==
    /\ active_connections = <<>> /\ user_connections = <<>>
    /\ nextId = 1 /\ closed = {}
    /\ tasks = <<>> /\ strm = <<>>
    /\ handlers = <<>> /\ turns = <<>> /\ inbox = <<>>
    /\ db = InitDb /\ conn = <<>>
    /\ last = [op |-> "none"]
    /\ \E f \in [Docs -> 0..MaxChunks], ever \in BOOLEAN :
          /\ Indexed(f) # {} => ever
          /\ vector_store = [mem |-> Indexed(f), disk |-> Indexed(f),
                             ever |-> ever, ops |-> 0, first |-> {}]

NextQuery ==
    \E S \in Retrieve(vector_store.mem, RAGService.k) :
        \E ids \in ReqDocumentIds, mr \in ReqMaxResults, o \in ChainOutcomes :
            IndexQuery(ids, mr, o, S)

SpecQuery == InitQuery /\ [][NextQuery]_vars

\* -------------------------------------------------- query claims (SpecQuery)

\* C17: a question put to an index that never held anything fails with a
\* not-ready error, the generation model is not invoked, and no Query is
\* left in status processing.
C17_NotReadyOnEmptyIndex ==
    (last.op = "query" /\ ~last.ever) =>
        /\ last.ret = "raised"
        /\ last.error = "not_ready"
        /\ ~last.llm
        /\ \A k \in DOMAIN db.queries : db.queries[k].status # "processing"

\* C18: when the request lists document_ids, the retrieval takes as many
\* entries as the request's max_results says, and every source of the turn
\* is a chunk of one of the listed documents.
C18_DocumentFilter ==
    (last.op = "query" /\ last.document_ids.present) =>
        /\ last.k = last.max_results
        /\ \A e \in last.sources : e.document_id \in last.document_ids.ids

\* C22: when the socket is gone while its turn is in progress, the turn goes
\* on (the pipeline is still called), every delivery it makes after that
\* returns False without touching the registry, and the turn's Query ends
\* in completed or failed.
C22_CloseMidTurn ==
    [][(/\ conn.pc \in {"resolve", "body", "stream"}
        /\ ~Open
        /\ conn' # conn)
       =>
          /\ conn'.pc # "done"
          /\ conn.pc = "body" => conn'.calls = conn.calls + 1
          /\ Len(conn'.frames) > Len(conn.frames) =>
                ~conn'.frames[Len(conn'.frames)].sent
          /\ active_connections' = active_connections
          /\ user_connections' = user_connections
          /\ conn'.calls > conn.calls =>
                \E k \in QueriesOf(db', conn.n) :
                    db'.queries[k].status \in {"completed", "failed"}]_vars

\* the rows the turn of the n-th text has in the tables
TurnRows(d, n, created) ==
    {k \in DOMAIN d.messages : d.messages[k].turn = n} \cup
    {c.id : c \in {x \in d.conversations : x.id = created}}

\* C23: the writes of a turn are one unit of work of that turn: the Session
\* that carries them was opened in the turn, the tables change only in the
\* step that ends the turn, and a turn that fails leaves no row of its own.
C23_TurnIsOneUnit ==
    [][/\ (db' # db) => db'.opened = conn'.n
       /\ (db'.messages # db.messages \/ db'.conversations # db.conversations)
              => conn'.pc \in {"receive", "stream"}
       /\ conn'.ev = "failed" =>
              TurnRows(db', conn'.n,
                       IF Truthy(conn'.req.conv) THEN None ELSE conn'.conv) = {}]_vars

\* C25: a chat message read from the open socket starts a turn: the step
\* that reads it counts it, sends its echo and goes on to the typing
\* indicator; none is read by the wait for a pong and dropped.
C25_EveryMessageIsATurn ==
    [][(conn'.ev \in {"request", "swallowed"} /\ conn' # conn) =>
          /\ conn'.pc = "typing"
          /\ conn'.n = conn.n + 1
          /\ Len(conn'.frames) = 1
          /\ conn'.frames[1].type = "user"]_vars

\* C29: a turn that failed leaves nothing behind for the turns after it on
\* the socket: when its error is reported the Session holds no staged
\* write, and every row a step adds to the messages is a row of the turn
\* that step belongs to.
C29_FailedTurnLeavesNothing ==
    [][/\ (conn'.ev \in {"failed", "update_failed"} /\ conn' # conn) =>
             db'.pending = <<>>
       /\ \A k \in DOMAIN db'.messages :
             k > Len(db.messages) => db'.messages[k].turn = conn'.n]_vars

\* ---------- SpecConv: the sockets of one user writing to one conversation
\* Every socket has its own websocket_endpoint call and with it its own
\* Session (get_db, lines 105-110); the tables are shared.  The calls are
\* coroutines of one event loop, and from the db.add of the user message
\* (line 310) to the db.commit of line 377 there is no await: the stretch
\* is one step.  autoflush is off (db/session.py line 19), so what a
\* Session holds reaches the tables only at its next db.commit().

\* the conversation the requests name
SharedConv == 1

InitConv ==
    /\ InitReg
    /\ tasks = <<>> /\ strm = <<>>
    /\ handlers = <<>> /\ turns = <<>> /\ inbox = <<>>
    /\ NoIndex
    /\ db = InitDb
    /\ conn = [c \in Conns |-> [open |-> TRUE, n |-> 0, pending |-> <<>>]]

\* lines 301-377 and 427-433 on socket c for a request that names
\* SharedConv: the Session of the socket commits the user message, and then
\* the pipeline fails, or the update of the conversation fails with the
\* answer staged, or the answer is committed
ConvTurn(c, out, upd) ==
    /\ conn[c].open
    /\ conn[c].n < MaxTexts
    /\ FindConversation(db, SharedConv, Me) # {}
    /\ LET t == <<c, conn[c].n + 1>>
           d1 == Commit(Stage([db EXCEPT !.pending = conn[c].pending],
                              [op |-> "message", id |-> SharedConv,
                               user_id |-> Me, role |-> "user", turn |-> t]))
           ops == AnswerOps(SharedConv, t)
       IN  CASE ~out.ok ->
                   /\ db' = d1
                   /\ conn' = [conn EXCEPT ![c].n = @ + 1, ![c].pending = <<>>]
             [] out.ok /\ upd = "raises" ->
                   /\ db' = d1
                   /\ conn' = [conn EXCEPT ![c].n = @ + 1, ![c].pending = ops]
             [] OTHER ->
                   /\ db' = Commit(Stage(Stage(d1, ops[1]), ops[2]))
                   /\ conn' = [conn EXCEPT ![c].n = @ + 1, ![c].pending = <<>>]
    /\ UNCHANGED <<regvars, tasks, strm, handlers, turns, inbox, vector_store>>

\* the socket ends: get_db closes the Session (db/session.py lines 41-42)
\* and what it held is dropped
ConvClose(c) ==
    /\ conn[c].open
    /\ conn' = [conn EXCEPT ![c].open = FALSE, ![c].pending = <<>>]
    /\ UNCHANGED <<regvars, tasks, strm, handlers, turns, inbox, db,
                   vector_store>>

NextConv ==
    \/ \E c \in Conns, out \in Outcomes, upd \in UpdateOutcomes :
          ConvTurn(c, out, upd)
    \/ \E c \in Conns : ConvClose(c)

SpecConv == InitConv /\ [][NextConv]_vars

\* C27: the messages of a conversation that several sockets of a user post
\* to are a sequence of whole turns: every assistant message comes right
\* after the user message of its own turn, and the sequence only grows at
\* its end.
C27_TurnsDoNotInterleave ==
    [][/\ \A k \in DOMAIN db'.messages :
             db'.messages[k].role = "assistant" =>
                 /\ k > 1
                 /\ db'.messages[k - 1].role = "user"
                 /\ db'.messages[k - 1].turn = db'.messages[k].turn
       /\ Len(db'.messages) >= Len(db.messages)
       /\ SubSeq(db'.messages, 1, Len(db.messages)) = db.messages]_vars

\* ---------- SpecLoop: the event loop while rag_service.query is running
\* The handlers of SpecChat, with the synchronous stretch of
\* process_chat_message (lines 301-377) in two parts: the thread enters
\* rag_service.query, and the call returns.  websocket_endpoint is a
\* coroutine of the server's one event loop and query is called without
\* await, executor or thread, so while the call runs the loop resumes no
\* other coroutine.  Clients write to their sockets whatever the server does.

\* the thread of the event loop is inside rag_service.query
Generating ==
    \E c \in Conns : \E k \in DOMAIN turns[c] : turns[c][k].stage = "generating"

\* lines 301-320 reached from the lookup of a known conversation
TurnResolveCall(c, k, conv, w) ==
    /\ turns[c][k].stage = "resolve"
    /\ CASE conv = "unknown" ->
               Sends(c, w) /\ TurnReturns(c, k)
         [] conv = "none" ->
               /\ Sends(c, w)
               /\ TurnGoes(c, k, [turns[c][k] EXCEPT !.stage = "body"])
         [] conv = "known" ->
               /\ UNCHANGED <<active_connections, user_connections>>
               /\ TurnGoes(c, k, [turns[c][k] EXCEPT !.stage = "generating"])
    /\ UNCHANGED <<nextId, last, closed, tasks, strm, turnvars, vector_store, inbox>>

\* lines 301-320 after the frame that announces the new conversation
TurnBodyCall(c, k) ==
    /\ turns[c][k].stage = "body"
    /\ TurnGoes(c, k, [turns[c][k] EXCEPT !.stage = "generating"])
    /\ UNCHANGED <<regvars, tasks, strm, turnvars, vector_store, inbox>>

\* lines 320-433: query returns or raises, and the first delivery is made
TurnGenerated(c, k, w, out, stream) ==
    /\ turns[c][k].stage = "generating"
    /\ RunPipeline(c, k, w, out, stream)
    /\ UNCHANGED <<nextId, last, closed, tasks, strm, turnvars, vector_store, inbox>>

\* a coroutine of socket c is resumed by the loop
LoopStep(c) ==
    /\ ~Generating
    /\ \/ \E auth \in {"ok", "reject"}, u \in Users, acc \in AcceptOutcomes :
             HandlerStart(c, auth, u, WebSocket(c), acc)
       \/ \E w \in WriteOutcomes : HandlerWelcome(c, w)
       \/ \E kind \in ParseKinds, w \in WriteOutcomes : HandlerReceive(c, kind, w)
       \/ \E w \in WriteOutcomes : HandlerTimeout(c, w)
       \/ HandlerPong(c)
       \/ HandlerClientClose(c)
       \/ \E build \in Builds : HandlerReadClosed(c, build)
       \/ \E k \in DOMAIN turns[c], w \in WriteOutcomes : TurnTyping(c, k, w)
       \/ \E k \in DOMAIN turns[c], conv \in ConvKinds, w \in WriteOutcomes :
             TurnResolveCall(c, k, conv, w)
       \/ \E k \in DOMAIN turns[c] : TurnBodyCall(c, k)
       \/ \E k \in DOMAIN turns[c], w \in WriteOutcomes : TurnStream(c, k, w)

NextLoop ==
    \E c \in Conns :
        \/ ClientSend(c)
        \/ LoopStep(c)
        \/ \E k \in DOMAIN turns[c], w \in WriteOutcomes,
              out \in Outcomes, stream \in BOOLEAN :
              TurnGenerated(c, k, w, out, stream)

SpecLoop == InitChat /\ [][NextLoop]_vars

\* ---------------------------------------------------- loop claim (SpecLoop)

\* socket d is open, its handler is at receive_text, and a text is waiting
TextWaiting(d) ==
    handlers[d].pc = "receive" /\ IsOpen(d) /\ inbox.q[d] > 0

\* C21: while the turn of one socket is inside the generation call, the
\* handler of another socket that has a text waiting can take it (and so
\* can send frames and pings) before that call returns.
C21_OthersNotBlocked ==
    \A c, d \in Conns :
        (/\ c # d
         /\ \E k \in DOMAIN turns[c] : turns[c][k].stage = "generating"
         /\ TextWaiting(d))
        => ENABLED LoopStep(d)

\* --------------------------- SpecSplit: DocumentProcessor.split_text
\* split_text (core/document_processor.py 168-197) hands the text to
\* langchain's RecursiveCharacterTextSplitter with the separators
\* "\n\n", "\n", " ", "" and len as the length.  A text is a sequence of
\* characters: a letter, a space or a newline.

Letter == 1
Space == 2
Newline == 3
Chars == {Letter, Space, Newline}

RECURSIVE SeqsUpTo(_, _)
SeqsUpTo(S, n) ==
    IF n = 0 THEN {<<>>}
    ELSE LET shorter == SeqsUpTo(S, n - 1)
         IN  shorter \cup {Append(t, x) : t \in {u \in shorter : Len(u) = n - 1},
                                          x \in S}

SplitTexts == SeqsUpTo(Chars, MaxSplitLen)

\* line 192: separators=["\n\n", "\n", " ", ""]
separators == <<<<Newline, Newline>>, <<Newline>>, <<Space>>, <<>>>>

IsWhite(ch) == ch \in {Space, Newline}

\* str.strip()
RECURSIVE strip(_)
strip(t) ==
    IF t = <<>> THEN t
    ELSE IF IsWhite(Head(t)) THEN strip(Tail(t))
    ELSE IF IsWhite(t[Len(t)]) THEN strip(SubSeq(t, 1, Len(t) - 1))
    ELSE t

StartsWith(t, sep) == Len(sep) <= Len(t) /\ SubSeq(t, 1, Len(sep)) = sep

\* re.search(separator, text) for a separator that is not empty
RECURSIVE Found(_, _)
Found(t, sep) ==
    IF Len(t) < Len(sep) THEN FALSE
    ELSE StartsWith(t, sep) \/ Found(Tail(t), sep)

\* re.split("(sep)", text): the pieces between the occurrences of sep, taken
\* from the left
RECURSIVE Pieces(_, _, _)
Pieces(t, sep, cur) ==
    IF t = <<>> THEN <<cur>>
    ELSE IF StartsWith(t, sep)
         THEN <<cur>> \o Pieces(SubSeq(t, Len(sep) + 1, Len(t)), sep, <<>>)
         ELSE Pieces(Tail(t), sep, Append(cur, Head(t)))

\* the splitter's split with keep_separator: every piece but the first
\* carries the separator in front; empty pieces are dropped; the empty
\* separator gives the characters
SplitKeep(t, sep) ==
    IF sep = <<>> THEN [k \in 1..Len(t) |-> <<t[k]>>]
    ELSE LET ps == Pieces(t, sep, <<>>)
             all == [k \in 1..Len(ps) |-> IF k = 1 THEN ps[1] ELSE sep \o ps[k]]
         IN  SelectSeq(all, LAMBDA x : x # <<>>)

RECURSIVE JoinAll(_)
JoinAll(ps) == IF ps = <<>> THEN <<>> ELSE Head(ps) \o JoinAll(Tail(ps))

\* _join_docs: the pieces joined and stripped; nothing when that is empty
JoinDocs(ps) ==
    LET t == strip(JoinAll(ps)) IN IF t = <<>> THEN <<>> ELSE <<t>>

\* the while loop of _merge_splits: pieces leave the front of the current
\* chunk until what stays is no longer than the overlap and the next piece
\* fits
RECURSIVE DropFront(_, _, _, _)
DropFront(cur, len, size, overlap) ==
    LET total == Len(JoinAll(cur))
    IN  IF total > overlap \/ (total + len > size /\ total > 0)
        THEN DropFront(Tail(cur), len, size, overlap)
        ELSE cur

\* _merge_splits with the empty join string
RECURSIVE MergeSplits(_, _, _, _)
MergeSplits(ps, cur, size, overlap) ==
    IF ps = <<>> THEN JoinDocs(cur)
    ELSE LET d == Head(ps)
             total == Len(JoinAll(cur))
         IN  IF total + Len(d) > size /\ cur # <<>>
             THEN JoinDocs(cur) \o
                  MergeSplits(Tail(ps),
                              Append(DropFront(cur, Len(d), size, overlap), d),
                              size, overlap)
             ELSE MergeSplits(Tail(ps), Append(cur, d), size, overlap)

\* the first separator of the list that occurs in the text (the empty one
\* always does)
RECURSIVE PickSeparator(_, _, _)
PickSeparator(t, seps, k) ==
    IF k = Len(seps) \/ seps[k] = <<>> \/ Found(t, seps[k]) THEN k
    ELSE PickSeparator(t, seps, k + 1)

\* RecursiveCharacterTextSplitter._split_text
RECURSIVE SplitRec(_, _, _, _)
RECURSIVE SplitWalk(_, _, _, _, _, _)
SplitWalk(ps, good, rest, size, overlap, k) ==
    IF ps = <<>> THEN MergeSplits(good, <<>>, size, overlap)
    ELSE LET p == Head(ps)
         IN  IF Len(p) < size
             THEN SplitWalk(Tail(ps), Append(good, p), rest, size, overlap, k)
             ELSE MergeSplits(good, <<>>, size, overlap) \o
                  (IF rest = <<>> THEN <<p>> ELSE SplitRec(p, rest, size, overlap)) \o
                  SplitWalk(Tail(ps), <<>>, rest, size, overlap, k)

SplitRec(t, seps, size, overlap) ==
    LET k == PickSeparator(t, seps, 1)
        sep == seps[k]
        rest == IF sep = <<>> THEN <<>> ELSE SubSeq(seps, k + 1, Len(seps))
    IN  SplitWalk(SplitKeep(t, sep), <<>>, rest, size, overlap, k)

\* lines 168-197: split_text(text, chunk_size, chunk_overlap); the
\* splitter's constructor refuses an overlap larger than the size
split_text(t, size, overlap) ==
    IF strip(t) = <<>> THEN [ret |-> "ok", chunks |-> <<>>]
    ELSE IF overlap > size THEN [ret |-> "raised", chunks |-> <<>>]
    ELSE [ret |-> "ok", chunks |-> SplitRec(t, separators, size, overlap)]

InitSplit ==
    /\ active_connections = <<>> /\ user_connections = <<>>
    /\ nextId = 1 /\ closed = {}
    /\ tasks = <<>> /\ strm = <<>>
    /\ NoChat
    /\ \E t \in SplitTexts, size \in 1..MaxChunkSize, overlap \in 0..MaxChunkSize :
          last = [op |-> "text", text |-> t, chunk_size |-> size,
                  chunk_overlap |-> overlap, ret |-> "none", chunks |-> <<>>]

Split ==
    /\ last.op = "text"
    /\ LET r == split_text(last.text, last.chunk_size, last.chunk_overlap)
       IN  last' = [last EXCEPT !.op = "split", !.ret = r.ret, !.chunks = r.chunks]
    /\ UNCHANGED <<active_connections, user_connections, nextId, closed, tasks,
                   strm, chatvars>>

NextSplit == Split

SpecSplit == InitSplit /\ [][NextSplit]_vars

\* --------------------------------------------------- split claim (SpecSplit)

\* the chunks joined after the first chunk_overlap characters of every chunk
\* but the first are taken away
RECURSIVE Rejoin(_, _, _)
Rejoin(chunks, overlap, first) ==
    IF chunks = <<>> THEN <<>>
    ELSE LET c == Head(chunks)
         IN  (IF first THEN c ELSE SubSeq(c, overlap + 1, Len(c))) \o
             Rejoin(Tail(chunks), overlap, FALSE)

\* C24: with chunk_overlap < chunk_size the chunks of a text, joined after
\* the overlap is taken off every chunk but the first, are the text; a text
\* of whitespace alone gives no chunk; chunk_overlap >= chunk_size fails.
C24_SplitRoundTrip ==
    last.op = "split" =>
        IF last.chunk_overlap >= last.chunk_size
        THEN last.ret = "raised"
        ELSE /\ last.ret = "ok"
             /\ IF strip(last.text) = <<>>
                THEN last.chunks = <<>>
                ELSE Rejoin(last.chunks, last.chunk_overlap, TRUE) = last.text

====
